---- MODULE Spec2Model ----
(***************************************************************************)
(* SumGame (src/src/App.tsx): a grid of numbered blocks, a target sum, a   *)
(* selection of block ids, a deferred application of a detected match      *)
(* (setTimeout 100 ms) and, in time mode, a one-second interval timer.     *)
(*                                                                         *)
(* Every React event handler / timer callback is one action.  The state    *)
(* updater functions passed to the setters are operators, computed as the  *)
(* code computes them.  Rows and columns are numbered from 0 as in the     *)
(* source; row 0 is the top row.                                           *)
(***************************************************************************)
EXTENDS Integers, Sequences, FiniteSets

\* ---------------------------------------------------------------- constants
\* src/src/constants.ts is imported at App.tsx:8 but is not part of the
\* sources at hand; the configuration is taken from spec.md section 6
\* ("fixed at construction") and scaled to grids that can be enumerated.
\* The number of rows is fixed by the initial state (variable GRID_ROWS):
\* SessionRows in the game sessions of Spec, GridRows where the grid
\* operations are applied to every settled grid (SpecGrid).
SessionRows == 2
GridRows == 3
GRID_COLS == 2
INITIAL_ROWS == 1
TIME_LIMIT == 2
MIN_TARGET == 2
MAX_TARGET == 3
BLOCK_VALUES == {1, 2}

\* ------------------------------------------------------------------- bounds
\* The player stops clicking once the score has reached 10 * MaxCleared.
MaxCleared == 2
\* A timeout waits 100 ms: while one waits, at most MaxWindow other events
\* (clicks, timer firings, button presses) are handled before it runs.
MaxWindow == 1



\* The id of a block that has left the grid.  generateId never returns it
\* again, so from then on it equals the id of no block: every such id is
\* written DeadId where a waiting timeout still holds it.
DeadId == 0

\* types.ts: Block = {id, value, isSelected}; a grid cell is Block | null.
NULL == [id |-> 0, value |-> 0, isSelected |-> FALSE]
Block(i, v) == [id |-> i, value |-> v, isSelected |-> FALSE]

VARIABLES
    GRID_ROWS,     \* the configured number of rows, never changed
    mode,          \* "null" | "classic" | "time"          (useState, l.23)
    grid,          \* [Rows -> [Cols -> Block or NULL]], or <<>> before the first game
    targetSum,     \* l.25
    score,         \* l.26
    isGameOver,    \* l.28
    timeLeft,      \* l.29
    selectedIds,   \* sequence of ids, l.30
    isPaused,      \* l.31
    pending,       \* FIFO of the setTimeout callbacks of l.134 not yet run
    last,          \* history: the event handled by the last step and its outcome
    created,       \* history: the blocks createBlock returned during the last step
    cleared,       \* history: blocks removed from the grid by matches this session
    waited,        \* events handled since the oldest waiting timeout was set
    clicks         \* history, kept by SpecClicks only: the clicks handled so far

vars == <<GRID_ROWS, mode, grid, targetSum, score, isGameOver, timeLeft, selectedIds,
          isPaused, pending, last, created, cleared, waited, clicks>>

Rows == 0 .. (GRID_ROWS - 1)
Cols == 0 .. (GRID_COLS - 1)

\* Ids are opaque strings in the source, compared for equality only.  There
\* are as many as the grid has cells.
Ids == 1 .. (GRID_ROWS * GRID_COLS)

\* --------------------------------------------------------------- helpers
Min(S) == CHOOSE x \in S : \A y \in S : x <= y

SeqToSet(s) == {s[i] : i \in 1 .. Len(s)}

\* prev.includes(id)
Includes(s, x) == \E i \in 1 .. Len(s) : s[i] = x

\* All blocks of a grid (grid.flat() without the nulls), as cell positions.
Occupied(g) == {p \in (DOMAIN g) \X Cols : g[p[1]][p[2]] # NULL}

LiveIds(g) == {g[p[1]][p[2]].id : p \in Occupied(g)}

LiveBlocks(g) == {g[p[1]][p[2]] : p \in Occupied(g)}

\* The waiting timeouts q once only the blocks with ids in live remain.
Forget(q, live) ==
    [i \in 1 .. Len(q) |->
        [q[i] EXCEPT !.ids = [j \in 1 .. Len(@) |->
                                 IF @[j] \in live THEN @[j] ELSE DeadId]]]

\* generateId (l.14) draws a random 7-character string.  The model takes the
\* least id no block of the grid has: it stands for every draw that does not
\* collide with a live block.
RECURSIVE generateIds(_, _)
generateIds(used, n) ==
    IF n = 0 THEN <<>>
    ELSE LET i == Min(Ids \ used)
         IN <<i>> \o generateIds(used \cup {i}, n - 1)

\* createBlock (l.16-20) for one row: ids in column order, values as drawn.
createRow(ids, vals) == [c \in Cols |-> Block(ids[c + 1], vals[c])]

RowValues == [Cols -> BLOCK_VALUES]

\* ------------------------------------------------------------ addNewRow
\* l.57: prev[0].some(cell => cell !== null)
TopOccupied(g) == \E c \in Cols : g[0][c] # NULL

\* A shift that leaves row 0 in place: the loop of l.64 started at r = 1.
ShiftUpFromRowOne(g, newRow) ==
    [r \in Rows |-> IF r = 0 THEN g[0]
                    ELSE IF r < GRID_ROWS - 1 THEN g[r + 1] ELSE newRow]

\* l.62-69: rows shift up by one, the new row becomes row GRID_ROWS - 1.
ShiftUp(g, newRow) ==
    [r \in Rows |-> IF r < GRID_ROWS - 1 THEN g[r + 1] ELSE newRow]

\* ------------------------------------------------------------ removeBlocks
\* l.160-162: cells whose id is in ids become null.
ClearIds(g, ids) ==
    [r \in Rows |-> [c \in Cols |->
        IF g[r][c] # NULL /\ Includes(ids, g[r][c].id) THEN NULL ELSE g[r][c]]]

\* The loop of l.166-174 without the emptyRow-- of l.172.
RECURSIVE GravityLoopNoDecrement(_, _, _)
GravityLoopNoDecrement(col, r, emptyRow) ==
    IF r < 0 THEN col
    ELSE IF col[r] # NULL
         THEN GravityLoopNoDecrement(
                  [[col EXCEPT ![r] = NULL] EXCEPT ![emptyRow] = col[r]],
                  r - 1, emptyRow)
         ELSE GravityLoopNoDecrement(col, r - 1, emptyRow)

\* No gravity: the column as l.160-162 left it.
GravityLoopSkipped(col, r, emptyRow) == col

\* l.166-174: the loop over r = GRID_ROWS-1 .. 0 of one column.
RECURSIVE GravityLoop(_, _, _)
GravityLoop(col, r, emptyRow) ==
    IF r < 0 THEN col
    ELSE IF col[r] # NULL
         THEN GravityLoop([[col EXCEPT ![r] = NULL] EXCEPT ![emptyRow] = col[r]],
                          r - 1, emptyRow - 1)
         ELSE GravityLoop(col, r - 1, emptyRow)

Column(g, c) == [r \in Rows |-> g[r][c]]

\* l.165-175: gravity in every column.
Gravity(g) ==
    [r \in Rows |-> [c \in Cols |->
        GravityLoop(Column(g, c), GRID_ROWS - 1, GRID_ROWS - 1)[r]]]

\* l.159-177: the updater removeBlocks hands to setGrid.
removeBlocksGrid(g, ids) == Gravity(ClearIds(g, ids))

\* ------------------------------------------------------------ selection
\* l.128-129: grid.flat().find(item => item?.id === id), b?.value || 0
ValueOf(g, id) ==
    LET hits == {p \in Occupied(g) : g[p[1]][p[2]].id = id}
    IN IF hits = {} THEN 0
       ELSE LET first == CHOOSE p \in hits : \A q \in hits :
                             p[1] * GRID_COLS + p[2] <= q[1] * GRID_COLS + q[2]
            IN g[first[1]][first[2]].value

\* l.127-130: next.reduce(...)
RECURSIVE currentSum(_, _)
currentSum(next, g) ==
    IF next = <<>> THEN 0
    ELSE ValueOf(g, Head(next)) + currentSum(Tail(next), g)

\* A click that always appends: l.122-124 without the includes test of l.118.
ToggleAppends(prev, id) == Append(prev, id)

\* A deselection that drops the whole selection: l.121 returning [].
ToggleClears(prev, id) ==
    IF Includes(prev, id) THEN <<>> ELSE Append(prev, id)

\* l.118-124
Toggle(prev, id) ==
    IF Includes(prev, id)
    THEN SelectSeq(prev, LAMBDA x : x # id)
    ELSE Append(prev, id)

\* The classification with >= in place of === at l.132.
OutcomeAtLeast(sum, target) ==
    IF sum >= target THEN "EXACT_MATCH" ELSE "CONTINUE"

\* The classification without the branch of l.149-152.
OutcomeKeepsExcess(sum, target) ==
    IF sum = target THEN "EXACT_MATCH" ELSE "CONTINUE"

\* The classification without the branch of l.132-148.
OutcomeNeverMatches(sum, target) ==
    IF sum > target THEN "EXCEEDED" ELSE "CONTINUE"

\* l.132-154: the classification of the updated selection.
Outcome(sum, target) ==
    IF sum = target THEN "EXACT_MATCH"
    ELSE IF sum > target THEN "EXCEEDED"
    ELSE "CONTINUE"

\* The event of the last step: a click records whether the clicked id was
\* already selected (l.118).
Event(op, already, outcome) == [op |-> op, already |-> already, outcome |-> outcome]

\* ----------------------------------------------------------------- Init
\* The useState initial values, l.23-32.
Init ==
    /\ GRID_ROWS = SessionRows
    /\ mode = "null"
    /\ grid = <<>>
    /\ targetSum = 0
    /\ score = 0
    /\ isGameOver = FALSE
    /\ timeLeft = TIME_LIMIT
    /\ selectedIds = <<>>
    /\ isPaused = FALSE
    /\ pending = <<>>
    /\ last = Event("mount", FALSE, "none")
    /\ created = {}
    /\ cleared = 0
    /\ waited = 0
    /\ clicks = <<>>

\* --------------------------------------------------------------- actions
\* l.50-52: the values generateTarget can draw.
generateTarget == MIN_TARGET .. MAX_TARGET

\* The initial grid with the top INITIAL_ROWS rows filled instead of the
\* bottom ones.
initialGridTopRows(ids, vals) ==
    [r \in Rows |-> [c \in Cols |->
        IF r < INITIAL_ROWS
        THEN Block(ids[r * GRID_COLS + c + 1], vals[GRID_ROWS - INITIAL_ROWS + r][c])
        ELSE NULL]]

\* l.75-84: all cells null, then the bottom INITIAL_ROWS rows filled with
\* created blocks (ids in creation order, values as drawn).
initialGrid(ids, vals) ==
    [r \in Rows |-> [c \in Cols |->
        IF r >= GRID_ROWS - INITIAL_ROWS
        THEN Block(ids[(r - (GRID_ROWS - INITIAL_ROWS)) * GRID_COLS + c + 1],
                   vals[r][c])
        ELSE NULL]]

\* l.74-94, with ids the ids generateId returns to the createBlock calls of
\* l.82, in the order of the calls.
initGameWith(selectedMode, ids) ==
    \E vals \in [((GRID_ROWS - INITIAL_ROWS) .. (GRID_ROWS - 1)) -> RowValues],
       t \in generateTarget :
        LET g == initialGrid(ids, vals)
        IN /\ grid' = g
           /\ mode' = selectedMode
           /\ score' = 0
           /\ isGameOver' = FALSE
           /\ selectedIds' = <<>>
           /\ targetSum' = t
           /\ timeLeft' = TIME_LIMIT
           /\ isPaused' = FALSE
           /\ created' = LiveBlocks(g)
           /\ cleared' = 0
           /\ last' = Event("initGame", FALSE, "none")
           /\ pending' = Forget(pending, {})
           /\ UNCHANGED GRID_ROWS

\* l.74-94, the ids drawn being distinct.
initGame(selectedMode) ==
    initGameWith(selectedMode, generateIds({}, INITIAL_ROWS * GRID_COLS))

\* addNewRow without the test of l.57: the rows shift whatever row 0 holds.
addNewRowUnchecked(g, over, newGrid, newOver, newCreated, signal) ==
    \E vals \in RowValues :
        LET ids == generateIds(LiveIds(ShiftUp(g, g[GRID_ROWS - 1])), GRID_COLS)
            row == createRow(ids, vals)
        IN /\ newGrid = ShiftUp(g, row)
           /\ newOver = over
           /\ newCreated = {row[c] : c \in Cols}
           /\ signal = "Ok"

\* addNewRow clearing the game-over flag when it shifts the rows.
addNewRowClearsFlag(g, over, newGrid, newOver, newCreated, signal) ==
    IF TopOccupied(g)
    THEN /\ newGrid = g
         /\ newOver = TRUE
         /\ newCreated = {}
         /\ signal = "GameOverSignal"
    ELSE \E vals \in RowValues :
            LET ids == generateIds(LiveIds(g), GRID_COLS)
                row == createRow(ids, vals)
            IN /\ newGrid = ShiftUp(g, row)
               /\ newOver = FALSE
               /\ newCreated = {row[c] : c \in Cols}
               /\ signal = "Ok"

\* l.54-72, called on grid g (the value the setGrid updater receives).
\* Gives the new grid, the game-over flag and the blocks created.
addNewRow(g, over, newGrid, newOver, newCreated, signal) ==
    IF TopOccupied(g)
    THEN /\ newGrid = g
         /\ newOver = TRUE
         /\ newCreated = {}
         /\ signal = "GameOverSignal"
    ELSE \E vals \in RowValues :
            LET ids == generateIds(LiveIds(g), GRID_COLS)
                row == createRow(ids, vals)
            IN /\ newGrid = ShiftUp(g, row)
               /\ newOver = over
               /\ newCreated = {row[c] : c \in Cols}
               /\ signal = "Ok"

\* The condition of l.98 with 'classic' in place of 'time'.
TimerRunsInClassic == mode = "classic" /\ ~isGameOver /\ ~isPaused

\* l.98: the effect keeps the interval only while this holds.
TimerRunning == mode = "time" /\ ~isGameOver /\ ~isPaused

\* l.99-107: the interval callback.
Tick ==
    /\ TimerRunning
    /\ IF timeLeft <= 1
       THEN \E sig \in {"Ok", "GameOverSignal"} :
               /\ addNewRow(grid, isGameOver, grid', isGameOver', created', sig)
               /\ timeLeft' = TIME_LIMIT
               /\ last' = Event("tick", FALSE, sig)
       ELSE /\ timeLeft' = timeLeft - 1
            /\ created' = {}
            /\ last' = Event("tick", FALSE, "countdown")
            /\ UNCHANGED <<grid, isGameOver>>
    /\ UNCHANGED <<GRID_ROWS, mode, targetSum, score, selectedIds, isPaused, pending,
                   cleared>>

\* The guard of l.115 without the pause.
LockedByGameOver == isGameOver

\* l.115: if (isGameOver || isPaused) return
Locked == isGameOver \/ isPaused

\* l.114-156: a click on a block shown on the game screen.
handleBlockClick(id) ==
    /\ mode # "null"
    /\ id \in LiveIds(grid)
    /\ created' = {}
    /\ IF Locked
       THEN /\ last' = Event("click", Includes(selectedIds, id), "IGNORED")
            /\ UNCHANGED <<selectedIds, pending>>
       ELSE LET next == Toggle(selectedIds, id)
                out == Outcome(currentSum(next, grid), targetSum)
            IN /\ last' = Event("click", Includes(selectedIds, id), out)
               /\ selectedIds' = IF out = "CONTINUE" THEN next ELSE <<>>
               /\ pending' = IF out = "EXACT_MATCH"
                             THEN Append(pending, [ids |-> next, mode |-> mode])
                             ELSE pending
    /\ UNCHANGED <<GRID_ROWS, mode, grid, targetSum, score, isGameOver, timeLeft,
                   isPaused, cleared>>

\* l.134-147: the timeout callback of the oldest waiting match.  It runs with
\* the ids and the mode of the render in which the match was detected.
ApplyMatch ==
    /\ pending # <<>>
    /\ LET m == Head(pending)
           g1 == removeBlocksGrid(grid, m.ids)
       IN /\ pending' = Forget(Tail(pending), LiveIds(g1))
          /\ selectedIds' = <<>>
          /\ score' = score + Len(m.ids) * 10
          /\ cleared' = cleared + Cardinality(Occupied(grid)) - Cardinality(Occupied(g1))
          /\ targetSum' \in generateTarget
          /\ IF m.mode = "classic"
             THEN \E sig \in {"Ok", "GameOverSignal"} :
                     /\ addNewRow(g1, isGameOver, grid', isGameOver', created', sig)
                     /\ timeLeft' = TIME_LIMIT
                     /\ last' = Event("applyMatch", FALSE, sig)
             ELSE /\ grid' = g1
                  /\ created' = {}
                  /\ last' = Event("applyMatch", FALSE, "none")
                  /\ UNCHANGED <<isGameOver, timeLeft>>
    /\ UNCHANGED <<GRID_ROWS, mode, isPaused>>

\* l.329: the pause button of the side bar, setIsPaused(!isPaused);
\* l.419: the button of the pause overlay, setIsPaused(false).
TogglePause ==
    /\ mode # "null"
    /\ isPaused' = ~isPaused
    /\ last' = Event("togglePause", FALSE, "none")
    /\ created' = {}
    /\ UNCHANGED <<GRID_ROWS, mode, grid, targetSum, score, isGameOver, timeLeft,
                   selectedIds, pending, cleared>>

\* l.278 and l.461: setMode(null), back to the menu.
ReturnToMenu ==
    /\ mode # "null"
    /\ mode' = "null"
    /\ last' = Event("menu", FALSE, "none")
    /\ created' = {}
    /\ UNCHANGED <<GRID_ROWS, grid, targetSum, score, isGameOver, timeLeft,
                   selectedIds, isPaused, pending, cleared>>

\* l.198, l.209: the menu's two buttons; l.336, l.455: restart in the same mode.
StartGame ==
    \E m \in {"classic", "time"} :
        /\ mode \in {"null", m}
        /\ initGame(m)

\* The player's clicks are bounded: none once the score has reached
\* 10 * MaxCleared.
Click ==
    /\ score < 10 * MaxCleared
    /\ \E id \in Ids : handleBlockClick(id)

\* An event other than a timeout: handled only while the window of the
\* waiting timeouts is open.
InWindow ==
    /\ pending # <<>> => waited < MaxWindow
    /\ waited' = IF pending = <<>> THEN 0 ELSE waited + 1
    /\ UNCHANGED clicks

Timeout ==
    /\ ApplyMatch
    /\ waited' = IF pending' = <<>> THEN 0 ELSE waited
    /\ UNCHANGED clicks

Next ==
    \/ InWindow /\ StartGame
    \/ InWindow /\ Click
    \/ InWindow /\ Tick
    \/ InWindow /\ TogglePause
    \/ InWindow /\ ReturnToMenu
    \/ Timeout

Spec == Init /\ [][Next]_vars

\* ------------------------------------------------- the grid operations
\* SpecGrid applies the two operations that change the grid, the timeout of
\* a match (removeBlocks, and addNewRow in classic mode) and the timer's
\* addNewRow, once to every settled grid of GridRows rows and every id list.
RECURSIVE SetToSeq(_)
SetToSeq(S) ==
    IF S = {} THEN <<>>
    ELSE LET m == Min(S) IN <<m>> \o SetToSeq(S \ {m})

\* The settled grid whose column c holds h[c] blocks of value v[c].
SettledGrid(h, v) ==
    [r \in 0 .. (GridRows - 1) |-> [c \in Cols |->
        IF r >= GridRows - h[c] THEN Block(r * GRID_COLS + c + 1, v[c]) ELSE NULL]]

InitGrid ==
    /\ GRID_ROWS = GridRows
    /\ mode \in {"classic", "time"}
    /\ \E h \in [Cols -> 0 .. GridRows], v \in [Cols -> BLOCK_VALUES] :
          grid = SettledGrid(h, v)
    /\ \E S \in SUBSET (0 .. (GridRows * GRID_COLS)) :
          pending = <<[ids |-> SetToSeq(S), mode |-> mode]>>
    /\ targetSum = MIN_TARGET
    /\ score = 0
    /\ isGameOver = FALSE
    /\ timeLeft = IF mode = "time" THEN 1 ELSE TIME_LIMIT
    /\ selectedIds = <<>>
    /\ isPaused = FALSE
    /\ last = Event("given", FALSE, "none")
    /\ created = {}
    /\ cleared = 0
    /\ waited = 0
    /\ clicks = <<>>

NextGrid ==
    \/ last.op = "given" /\ ApplyMatch /\ UNCHANGED <<waited, clicks>>
    \/ last.op = "given" /\ Tick /\ UNCHANGED <<waited, clicks>>

SpecGrid == InitGrid /\ [][NextGrid]_vars

\* ------------------------------------------------------------ the clicks
\* SpecClicks applies handleBlockClick to a block of a session, and then
\* once more to the same block, from every state a session of SessionRows
\* rows can show: any settled grid, any target, any selection of distinct
\* blocks whose sum is below the target, paused or not.  Each click is
\* recorded with its id, the selection it found and its outcome.
\* The settled grid whose column c holds h[c] blocks, with values v[r][c].
SessionGrid(h, v) ==
    [r \in 0 .. (SessionRows - 1) |-> [c \in Cols |->
        IF r >= SessionRows - h[c] THEN Block(r * GRID_COLS + c + 1, v[r][c]) ELSE NULL]]

\* The selections a session with grid g and target t can show.
Selections(g, t) ==
    {sel \in UNION {[1 .. n -> LiveIds(g)] : n \in 0 .. Cardinality(LiveIds(g))} :
        /\ \A i, j \in 1 .. Len(sel) : i # j => sel[i] # sel[j]
        /\ currentSum(sel, g) < t}

InitClicks ==
    /\ GRID_ROWS = SessionRows
    /\ mode \in {"classic", "time"}
    /\ \E h \in [Cols -> 0 .. SessionRows], v \in [0 .. (SessionRows - 1) -> RowValues] :
          grid = SessionGrid(h, v)
    /\ targetSum \in generateTarget
    /\ selectedIds \in Selections(grid, targetSum)
    /\ isPaused \in BOOLEAN
    /\ isGameOver = FALSE
    /\ score = 0
    /\ timeLeft = TIME_LIMIT
    /\ pending = <<>>
    /\ last = Event("given", FALSE, "none")
    /\ created = {}
    /\ cleared = 0
    /\ waited = 0
    /\ clicks = <<>>

ClickRecord(id) == [id |-> id, before |-> selectedIds, outcome |-> last'.outcome]

FirstClick ==
    /\ clicks = <<>>
    /\ \E id \in Ids : handleBlockClick(id) /\ clicks' = <<ClickRecord(id)>>
    /\ UNCHANGED waited

SecondClick ==
    /\ Len(clicks) = 1
    /\ handleBlockClick(clicks[1].id)
    /\ clicks' = Append(clicks, ClickRecord(clicks[1].id))
    /\ UNCHANGED waited

NextClicks == FirstClick \/ SecondClick

SpecClicks == InitClicks /\ [][NextClicks]_vars

\* ------------------------------------------------------------ the ids
\* generateId (l.14) is Math.random().toString(36).substring(2, 9): nothing
\* keeps two calls from returning the same string.  SpecIds starts games
\* with the ids as generateId may return them, equal ones included.
StartGameAnyIds ==
    \E m \in {"classic", "time"}, ids \in [1 .. (INITIAL_ROWS * GRID_COLS) -> Ids] :
        /\ mode \in {"null", m}
        /\ initGameWith(m, ids)
        /\ UNCHANGED <<waited, clicks>>

NextIds == StartGameAnyIds

SpecIds == Init /\ [][NextIds]_vars

\* ------------------------------------------------------- the timer alone
\* SpecTime runs a time-mode game from every playing state of GridRows rows
\* (any settled grid, target and countdown value) in which nobody pauses,
\* restarts or leaves and no click completes a match: the events are the
\* firings of the interval and the clicks that are not exact matches.
\* setInterval (l.99-107) fires every second for as long as the condition of
\* l.98 holds, hence the weak fairness on the firing.
InitTime ==
    /\ GRID_ROWS = GridRows
    /\ mode = "time"
    /\ \E h \in [Cols -> 0 .. GridRows], v \in [Cols -> BLOCK_VALUES] :
          grid = SettledGrid(h, v)
    /\ targetSum \in generateTarget
    /\ timeLeft \in 1 .. TIME_LIMIT
    /\ score = 0
    /\ isGameOver = FALSE
    /\ selectedIds = <<>>
    /\ isPaused = FALSE
    /\ pending = <<>>
    /\ last = Event("given", FALSE, "none")
    /\ created = {}
    /\ cleared = 0
    /\ waited = 0
    /\ clicks = <<>>

TimerFires == Tick /\ UNCHANGED <<waited, clicks>>

ClickWithoutMatch ==
    /\ \E id \in Ids : handleBlockClick(id) /\ last'.outcome # "EXACT_MATCH"
    /\ UNCHANGED <<waited, clicks>>

NextTime == TimerFires \/ ClickWithoutMatch

SpecTime == InitTime /\ [][NextTime]_vars /\ WF_vars(TimerFires)

\* ---------------------------------------------------------------- claims
\* A step in which addNewRow is called: by the timer when the countdown
\* expires (l.101-102), or by the timeout of a match detected in classic mode
\* (l.138-139), there on the grid removeBlocks has left.
TickInserts == last'.op = "tick" /\ timeLeft <= 1
MatchInserts == last'.op = "applyMatch" /\ Head(pending).mode = "classic"
InsertRowCalled == TickInserts \/ MatchInserts
PreInsert ==
    IF TickInserts THEN grid ELSE removeBlocksGrid(grid, Head(pending).ids)

\* C1: insertRow on a grid whose row 0 holds a block sets the game-over flag
\* and leaves every cell as it was: no row is shifted, no block is created.
C1_InsertRowFailsWhole ==
    [][(InsertRowCalled /\ \E c \in Cols : PreInsert[0][c] # NULL)
          => /\ isGameOver'
             /\ grid' = PreInsert
             /\ created' = {}]_vars

C1_Witness ==
    /\ last.op = "tick" /\ last.outcome = "GameOverSignal"
    /\ isGameOver
    /\ \E c \in Cols : grid[0][c] # NULL
    /\ \E c \in Cols : grid[0][c] = NULL

\* C2: insertRow on a grid whose row 0 is empty moves every row up by one and
\* writes GRID_COLS blocks, all created by this call, into the bottom row;
\* the game-over flag is not changed.
C2_InsertRowShifts ==
    [][(InsertRowCalled /\ \A c \in Cols : PreInsert[0][c] = NULL)
          => /\ \A r \in 0 .. (GRID_ROWS - 2) : grid'[r] = PreInsert[r + 1]
             /\ \A c \in Cols : /\ grid'[GRID_ROWS - 1][c] # NULL
                                /\ grid'[GRID_ROWS - 1][c] \in created'
             /\ Cardinality(created') = GRID_COLS
             /\ \A b \in created' : b.id \notin LiveIds(PreInsert)
             /\ isGameOver' = isGameOver]_vars

C2_Witness ==
    /\ last.op = "tick" /\ last.outcome = "Ok"
    /\ ~isGameOver
    /\ \A c \in Cols : grid[GRID_ROWS - 1][c] \in created
    /\ \E c \in Cols : grid[0][c] # NULL
    /\ \E c \in Cols : grid[1][c] = NULL

\* The blocks of column c of grid g, from the top row down.
ColumnBlocks(g, c) ==
    SelectSeq([i \in 1 .. GRID_ROWS |-> g[i - 1][c]], LAMBDA b : b # NULL)

\* C3: removeBlocks(ids) leaves in every column exactly the blocks of that
\* column whose id is not in ids, in the same order from the top down, in
\* the cells that end at the bottom row, and only empty cells above them.
C3_RemoveBlocksCompacts ==
    [][(last'.op = "applyMatch" /\ Head(pending).mode = "time")
          => \A c \in Cols :
               LET kept == SelectSeq(ColumnBlocks(grid, c),
                               LAMBDA b : b.id \notin SeqToSet(Head(pending).ids))
               IN \A r \in Rows :
                     grid'[r][c] =
                        IF r < GRID_ROWS - Len(kept) THEN NULL
                        ELSE kept[r - (GRID_ROWS - Len(kept)) + 1]]_vars

\* A match has removed a block from below a block that stayed.
C3_Witness ==
    /\ last.op = "applyMatch" /\ mode = "time"
    /\ cleared = 1
    /\ \E c \in Cols : grid[GRID_ROWS - 1][c].id = c + 1 + GRID_COLS
    /\ \E c \in Cols : Len(ColumnBlocks(grid, c)) = GRID_ROWS

\* The sum of the values of a set of blocks.
RECURSIVE SumValues(_)
SumValues(S) ==
    IF S = {} THEN 0
    ELSE LET b == CHOOSE x \in S : TRUE IN b.value + SumValues(S \ {b})

\* The blocks of the grid whose ids are in the list ids.
BlocksOf(g, ids) == {b \in LiveBlocks(g) : b.id \in SeqToSet(ids)}

\* A click the handler does not ignore.
ClickHandled == last'.op = "click" /\ ~isGameOver /\ ~isPaused

\* C4: a click that adds an id to the selection compares the sum of the
\* selected values with the target: equal, the selection is emptied and a
\* match is scheduled for the updated list; greater, the selection is
\* emptied; less, the selection becomes the prior one with the id appended.
C4_ClickClassifiesSum ==
    [][(ClickHandled /\ ~last'.already)
          => \E id \in LiveIds(grid) \ SeqToSet(selectedIds) :
               LET next == Append(selectedIds, id)
                   sum == SumValues(BlocksOf(grid, next))
               IN /\ sum = targetSum =>
                        /\ last'.outcome = "EXACT_MATCH"
                        /\ selectedIds' = <<>>
                        /\ pending' = Append(pending, [ids |-> next, mode |-> mode])
                  /\ sum > targetSum =>
                        /\ last'.outcome = "EXCEEDED"
                        /\ selectedIds' = <<>>
                        /\ pending' = pending
                  /\ sum < targetSum =>
                        /\ last'.outcome = "CONTINUE"
                        /\ selectedIds' = next
                        /\ pending' = pending]_vars

\* A match of several blocks has just been detected.
C4_Witness ==
    /\ last.op = "click" /\ ~last.already /\ last.outcome = "EXACT_MATCH"
    /\ selectedIds = <<>>
    /\ pending # <<>>
    /\ Len(pending[Len(pending)].ids) >= 2
    /\ SumValues(BlocksOf(grid, pending[Len(pending)].ids)) = targetSum

\* C5: a click on a selected block takes its id out of the selection and
\* is CONTINUE: no match is scheduled, the rest of the selection stays.
C5_DeselectContinues ==
    [][(ClickHandled /\ last'.already)
          => /\ last'.outcome = "CONTINUE"
             /\ \E id \in SeqToSet(selectedIds) :
                   selectedIds' = SelectSeq(selectedIds, LAMBDA x : x # id)
             /\ Len(selectedIds') = Len(selectedIds) - 1
             /\ pending' = pending
             /\ UNCHANGED <<grid, score, targetSum>>]_vars

\* One of two selected blocks has just been deselected.
C5_Witness ==
    /\ last.op = "click" /\ last.already /\ last.outcome = "CONTINUE"
    /\ Len(selectedIds) = 1

\* C6: the score is 10 times the number of blocks the matches of this
\* session have removed from the grid.
C6_ScoreCountsCleared == score = 10 * cleared

\* C7: while a detected match waits for its timeout, a click neither changes
\* the selection nor registers another match.
C7_NoClickWhileMatchWaits ==
    [][(pending # <<>> /\ last'.op = "click")
          => /\ selectedIds' = selectedIds
             /\ pending' = pending]_vars

\* C8: once the game is over, nothing but initGame changes the grid, the
\* score, the target or the selection.
C8_GameOverTerminal ==
    [][(isGameOver /\ last'.op # "initGame")
          => UNCHANGED <<grid, score, targetSum, selectedIds>>]_vars

\* C9: initGame yields score 0, no game over, no pause, an empty selection,
\* the full countdown, a target in range and a grid whose bottom
\* INITIAL_ROWS rows are full and whose other rows are empty.
C9_InitGameResets ==
    last.op = "initGame" =>
        /\ score = 0
        /\ ~isGameOver
        /\ ~isPaused
        /\ selectedIds = <<>>
        /\ timeLeft = TIME_LIMIT
        /\ targetSum >= MIN_TARGET /\ targetSum <= MAX_TARGET
        /\ DOMAIN grid = 0 .. (GRID_ROWS - 1)
        /\ \A r \in DOMAIN grid :
              /\ DOMAIN grid[r] = 0 .. (GRID_COLS - 1)
              /\ \A c \in DOMAIN grid[r] :
                    (grid[r][c] # NULL) <=> (r >= GRID_ROWS - INITIAL_ROWS)

\* initGame has run while a match of the session before was waiting.
C9_Witness ==
    /\ last.op = "initGame"
    /\ pending # <<>>
    /\ mode = "time"

\* C10: while paused, a click changes neither selection, grid, score nor
\* target, the timer does not fire, and the pause button leaves the pause
\* with the game-over flag as it was.
C10_PauseBlocks ==
    [][isPaused
          => /\ last'.op = "click" =>
                   UNCHANGED <<selectedIds, grid, score, targetSum, pending>>
             /\ last'.op # "tick"
             /\ last'.op \in {"click", "togglePause", "menu"} =>
                   UNCHANGED <<timeLeft, grid, isGameOver>>
             /\ last'.op = "togglePause" => ~isPaused']_vars

\* A click has been ignored in a paused time-mode game about to insert a row.
C10_Witness ==
    /\ isPaused /\ ~isGameOver
    /\ mode = "time" /\ timeLeft = 1
    /\ last.op = "click" /\ last.outcome = "IGNORED"

\* C11: in time mode, the step that leaves the pause sets the countdown to
\* TIME_LIMIT, whatever it was when the pause began.
C11_ResumeRestartsCountdown ==
    [][(mode = "time" /\ isPaused /\ last'.op = "togglePause")
          => timeLeft' = TIME_LIMIT]_vars

\* C12 as stated: two clicks in succession on the same block, handled by a
\* session that is neither paused nor over, end with outcome CONTINUE and a
\* selection holding the same set of ids as before the two.
C12_DoubleClickRestores ==
    (Len(clicks) = 2 /\ clicks[1].outcome # "IGNORED") =>
        /\ last.outcome = "CONTINUE"
        /\ SeqToSet(selectedIds) = SeqToSet(clicks[1].before)

\* C12, amended: if the first of the two clicks is handled and its outcome is
\* CONTINUE, the second click's outcome is CONTINUE and the selection holds
\* the same set of ids as before the two clicks.
C12_DoubleClickAfterContinue ==
    (Len(clicks) = 2 /\ clicks[1].outcome = "CONTINUE") =>
        /\ last.outcome = "CONTINUE"
        /\ SeqToSet(selectedIds) = SeqToSet(clicks[1].before)

\* A selected block was deselected and selected again: the set is the one of
\* before, the order is not.
C12_Witness ==
    /\ Len(clicks) = 2
    /\ clicks[1].outcome = "CONTINUE" /\ last.outcome = "CONTINUE"
    /\ Len(selectedIds) = 2
    /\ selectedIds # clicks[1].before
    /\ SeqToSet(selectedIds) = SeqToSet(clicks[1].before)

\* The selection a handled click on id computes from the selection sel.
UpdatedSelection(sel, id) ==
    IF id \in SeqToSet(sel) THEN SelectSeq(sel, LAMBDA x : x # id)
    ELSE Append(sel, id)

\* C13: a click whose updated selection sums to more than the target is
\* EXCEEDED and empties the selection (the clicked block is not left
\* selected); grid, score, target, game-over flag and countdown are
\* unchanged, no match is scheduled and no block is created.
C13_ExceededOnlyClearsSelection ==
    [][(ClickHandled /\ clicks' # clicks
          /\ LET c == clicks'[Len(clicks')]
             IN SumValues(BlocksOf(grid, UpdatedSelection(selectedIds, c.id))) > targetSum)
          => /\ last'.outcome = "EXCEEDED"
             /\ selectedIds' = <<>>
             /\ created' = {}
             /\ UNCHANGED <<grid, score, targetSum, isGameOver, timeLeft, mode,
                            isPaused, pending, cleared>>]_vars

\* A click on a block has exceeded the target with a block already selected.
C13_Witness ==
    /\ clicks # <<>>
    /\ last.op = "click" /\ last.outcome = "EXCEEDED"
    /\ clicks[Len(clicks)].before # <<>>
    /\ selectedIds = <<>>
    /\ clicks[Len(clicks)].id \in LiveIds(grid)

\* C14: once the game-over flag is true, no event but initGame makes it false.
C14_GameOverSticky ==
    [][(isGameOver /\ last'.op # "initGame") => isGameOver']_vars

\* A match detected before the game was over has been applied after it and
\* has inserted a row; the flag is still set.
C14_Witness ==
    /\ isGameOver
    /\ last.op = "applyMatch" /\ last.outcome = "Ok"
    /\ created # {}

\* C15: when addNewRow has shifted the rows and row 0 then holds a block,
\* the game-over flag is set.
C15_TopRowAfterShiftIsGameOver ==
    [][(InsertRowCalled /\ last'.outcome = "Ok" /\ \E c \in Cols : grid'[0][c] # NULL)
          => isGameOver']_vars

\* The grid g without the blocks whose ids are in ids, every column compacted
\* to the bottom in its order.
Compacted(g, ids) ==
    [r \in Rows |-> [c \in Cols |->
        LET kept == SelectSeq(ColumnBlocks(g, c),
                              LAMBDA b : b.id \notin SeqToSet(ids))
        IN IF r < GRID_ROWS - Len(kept) THEN NULL
           ELSE kept[r - (GRID_ROWS - Len(kept)) + 1]]]

\* The effects of addNewRow called once on grid g.
InsertedOnce(g) ==
    IF \E c \in Cols : g[0][c] # NULL
    THEN grid' = g /\ isGameOver' /\ created' = {}
    ELSE /\ \A r \in 0 .. (GRID_ROWS - 2) : grid'[r] = g[r + 1]
         /\ {grid'[GRID_ROWS - 1][c] : c \in Cols} = created'
         /\ NULL \notin created'
         /\ isGameOver' = isGameOver

\* C16: an applied match removes the matched blocks and compacts the
\* columns, adds 10 per matched id to the score, draws a new target and
\* then, if the game is in classic mode, calls addNewRow once on the
\* compacted grid; if the game is not in classic mode it inserts no row.
C16_ApplyMatchOrder ==
    [][last'.op = "applyMatch"
          => LET m == Head(pending)
                 g1 == Compacted(grid, m.ids)
             IN /\ score' = score + 10 * Len(m.ids)
                /\ targetSum' >= MIN_TARGET /\ targetSum' <= MAX_TARGET
                /\ IF mode = "classic"
                   THEN InsertedOnce(g1)
                   ELSE /\ grid' = g1
                        /\ created' = {}
                        /\ isGameOver' = isGameOver]_vars

\* C17: the blocks of the grid have pairwise distinct ids.
C17_DistinctIds == Cardinality(LiveIds(grid)) = Cardinality(Occupied(grid))

\* C18: in a started session the selected ids are pairwise distinct, each is
\* the id of a block of the grid, and a non-empty selection sums to less
\* than the target; the selection is empty right after an exact match, an
\* exceed, an applied match and a start of game.
C18_SelectionInvariant ==
    mode # "null" =>
        /\ \A i, j \in 1 .. Len(selectedIds) : i # j => selectedIds[i] # selectedIds[j]
        /\ SeqToSet(selectedIds) \subseteq LiveIds(grid)
        /\ selectedIds # <<>> => SumValues(BlocksOf(grid, selectedIds)) < targetSum
        /\ (\/ last.op \in {"initGame", "applyMatch"}
            \/ last.op = "click" /\ last.outcome \in {"EXACT_MATCH", "EXCEEDED"})
              => selectedIds = <<>>

\* Two blocks are selected in a session in which a match has been applied.
C18_Witness ==
    /\ mode # "null"
    /\ Len(selectedIds) = 2
    /\ score > 0
    /\ last.op = "click" /\ last.outcome = "CONTINUE"

\* C19: in a started session the grid has GRID_ROWS rows of GRID_COLS cells
\* and no column holds an empty cell below a block.
C19_SettledRectangular ==
    mode # "null" =>
        /\ DOMAIN grid = 0 .. (GRID_ROWS - 1)
        /\ \A r \in DOMAIN grid : DOMAIN grid[r] = 0 .. (GRID_COLS - 1)
        /\ \A c \in Cols : \A r \in 0 .. (GRID_ROWS - 2) :
              grid[r][c] # NULL => grid[r + 1][c] # NULL

\* After an applied match the columns have different heights, one of them full.
C19_Witness ==
    /\ last.op = "applyMatch"
    /\ cleared >= 1
    /\ \E c \in Cols : grid[0][c] = NULL /\ grid[GRID_ROWS - 1][c] # NULL
    /\ \E c \in Cols : grid[0][c] # NULL
    /\ Cardinality(Occupied(grid)) = 2 * GRID_COLS - 1

\* C20: a match detected before a start of game changes neither the score
\* nor the grid of the session that start of game has opened.
C20_NoCrossSessionMatch ==
    [][(last.op = "initGame" /\ last'.op = "applyMatch")
          => (score' = 0 /\ grid' = grid)]_vars

\* C21: in time mode, from every playing state, when the timer keeps firing
\* and nobody pauses, restarts, leaves or completes a match, the game-over
\* flag eventually becomes true; each expiry of the countdown inserts one
\* full row while row 0 is empty, and raises game over without inserting
\* once row 0 holds a block.
C21_TimeModeEndsInGameOver ==
    /\ (mode = "time" /\ ~isGameOver /\ ~isPaused) ~> isGameOver
    /\ [][(last'.op = "tick" /\ timeLeft <= 1)
            => IF \E c \in Cols : grid[0][c] # NULL
               THEN isGameOver' /\ grid' = grid
               ELSE /\ ~isGameOver'
                    /\ \A r \in 0 .. (GRID_ROWS - 2) : grid'[r] = grid[r + 1]
                    /\ \A c \in Cols : grid'[GRID_ROWS - 1][c] # NULL]_vars

\* The game has ended at an expiry of the countdown, after the timer alone
\* has filled every row of a column.
C21_Witness ==
    /\ mode = "time" /\ isGameOver
    /\ last.op = "tick" /\ last.outcome = "GameOverSignal"
    /\ cleared = 0 /\ score = 0
    /\ \E c \in Cols : \A r \in Rows : grid[r][c] # NULL
    /\ \A c \in Cols : grid[GRID_ROWS - 1][c] \in {Block(i, v) : i \in 1 .. GRID_COLS, v \in BLOCK_VALUES}

====
